---- MODULE Spec2Model ----
(***************************************************************************)
(* A model of server/services/news_fetcher.py: the HVACNewsFetcher class.  *)
(*                                                                         *)
(* Python strings are TLA+ strings; they are taken apart with Len, SubSeq  *)
(* and \o only.  The character "~" stands for U+00A0 (the no-break space   *)
(* that html.unescape produces for "&nbsp;"), which str.strip() and        *)
(* str.split() treat as white space.  A missing XML element and an empty   *)
(* one are both the empty string: every use in the source is of the form   *)
(* `findtext(..) or default`, which does not tell them apart.              *)
(***************************************************************************)
EXTENDS Integers, Sequences, FiniteSets, TLC

VARIABLES
    pc,                \* position in fetch_articles / in a helper call
    history,           \* the file data/news.json as the run finds it
    max_per_industry,  \* the argument of fetch_articles
    seen_titles,       \* local seen_titles of fetch_articles
    all_articles,      \* local all_articles of fetch_articles
    industryIdx,       \* position of the outer loop in search_terms.items()
    termIdx,           \* position of the loop over the group's terms
    collected,         \* local collected of fetch_articles
    root,              \* the items of the feed fetched for the current term
    itemIdx,           \* position of the loop over root's items
    pool,              \* the items the news source may return during this run
    seeded,            \* history: seen_titles as it was when the term loop began
    loadFailed,        \* history: the except branch of the history load ran
    log,               \* history: the items the item loop has examined, in order
    errors,            \* the number of lines written to sys.stderr
    now,               \* the wall clock read by datetime.utcnow()
    fnArg,             \* argument of the helper under test
    fnRet              \* result(s) of the helper under test

vars == <<pc, history, max_per_industry, seen_titles, all_articles, industryIdx,
          termIdx, collected, root, itemIdx, pool, seeded, loadFailed, log,
          errors, now, fnArg, fnRet>>

orchVars == <<history, max_per_industry, seen_titles, all_articles, industryIdx,
              termIdx, collected, root, itemIdx, pool, seeded, loadFailed, log,
              errors>>

-----------------------------------------------------------------------------
(* Bounds of the model.                                                    *)

MaxTermsPerGroup == 2   \* terms kept of each group's list
MaxFeedLen == 2         \* items in one fetched feed
MaxTotalItems == 4      \* items fetched during one run
MaxCap == 2             \* largest max_per_industry tried
MaxFailures == 1        \* fetches that fail during one run
MaxClock == 2           \* ticks of the wall clock
MaxWords == 3           \* phrases in a generated title-and-content text
MaxChunks == 3          \* chunks (a word and its separator) in a generated content

-----------------------------------------------------------------------------
(* Python string primitives.                                               *)

NBSP == "~"

Whitespace == {" ", "\t", "\n", NBSP}

CharAt(s, i) == SubSeq(s, i, i)

Drop(s, n) == SubSeq(s, n + 1, Len(s))

Min(S) == CHOOSE x \in S : \A y \in S : x <= y

\* str.lower(); the recursion halves the string.
LowerOf ==
    [c \in {"A","B","C","D","E","F","G","H","I","J","K","L","M","N","O","P",
            "Q","R","S","T","U","V","W","X","Y","Z"} |->
        CASE c = "A" -> "a" [] c = "B" -> "b" [] c = "C" -> "c" [] c = "D" -> "d"
          [] c = "E" -> "e" [] c = "F" -> "f" [] c = "G" -> "g" [] c = "H" -> "h"
          [] c = "I" -> "i" [] c = "J" -> "j" [] c = "K" -> "k" [] c = "L" -> "l"
          [] c = "M" -> "m" [] c = "N" -> "n" [] c = "O" -> "o" [] c = "P" -> "p"
          [] c = "Q" -> "q" [] c = "R" -> "r" [] c = "S" -> "s" [] c = "T" -> "t"
          [] c = "U" -> "u" [] c = "V" -> "v" [] c = "W" -> "w" [] c = "X" -> "x"
          [] c = "Y" -> "y" [] c = "Z" -> "z"]

RECURSIVE Lower(_)
Lower(s) ==
    IF s = "" THEN ""
    ELSE IF Len(s) = 1 THEN (IF s \in DOMAIN LowerOf THEN LowerOf[s] ELSE s)
    ELSE Lower(SubSeq(s, 1, Len(s) \div 2)) \o Lower(Drop(s, Len(s) \div 2))

\* str.startswith
StartsWith(s, p) == Len(s) >= Len(p) /\ SubSeq(s, 1, Len(p)) = p

\* The indices at which word occurs in text.
Occurrences(text, word) ==
    {i \in 1..(Len(text) - Len(word) + 1) : SubSeq(text, i, i + Len(word) - 1) = word}

\* `word in text` for strings.
Contains(text, word) == Occurrences(text, word) # {}

\* str.find, 1-based: the first occurrence of word in text, 0 when none.
Find(text, word) ==
    IF Occurrences(text, word) = {} THEN 0 ELSE Min(Occurrences(text, word))

\* str.strip()
Strip(s) ==
    LET solid == {i \in 1..Len(s) : CharAt(s, i) \notin Whitespace}
    IN IF solid = {} THEN ""
       ELSE SubSeq(s, Min(solid), CHOOSE j \in solid : \A i \in solid : i <= j)

\* str.split(): the maximal runs of non-white-space characters, in order.
Split(s) ==
    LET solid(i) == i >= 1 /\ i <= Len(s) /\ CharAt(s, i) \notin Whitespace
        starts == {i \in 1..Len(s) : solid(i) /\ ~solid(i - 1)}
        start(k) == CHOOSE i \in starts : Cardinality({j \in starts : j < i}) = k - 1
        stop(i) == Min({j \in i..Len(s) : ~solid(j + 1)})
    IN [k \in 1..Cardinality(starts) |-> SubSeq(s, start(k), stop(start(k)))]

\* str.replace(old, new) for a non-empty old; one level per occurrence.
RECURSIVE Replace(_, _, _)
Replace(s, old, new) ==
    LET k == Find(s, old)
    IN IF k = 0 THEN s
       ELSE SubSeq(s, 1, k - 1) \o new \o Replace(Drop(s, k + Len(old) - 1), old, new)

\* content.split(". ")[0]
FirstSentence(s) ==
    LET k == Find(s, ". ")
    IN IF k = 0 THEN s ELSE SubSeq(s, 1, k - 1)

\* re.sub("<[^<]+?>", "", s): a match starts at a "<", runs over one or more
\* characters other than "<" (as few as possible) and ends at the next ">".
\* TagEnd is the index of that ">" for a "<" at index k, 0 when nothing matches.
TagEnd(s, k) ==
    LET ends == {j \in (k + 2)..Len(s) :
                    /\ CharAt(s, j) = ">"
                    /\ \A i \in (k + 1)..(j - 1) : CharAt(s, i) # "<"}
    IN IF ends = {} THEN 0 ELSE Min(ends)

RECURSIVE StripTags(_)
StripTags(s) ==
    LET k == Find(s, "<")
    IN IF k = 0 THEN s
       ELSE IF TagEnd(s, k) = 0
            THEN SubSeq(s, 1, k) \o StripTags(Drop(s, k))
            ELSE SubSeq(s, 1, k - 1) \o StripTags(Drop(s, TagEnd(s, k)))

\* html.unescape on the character references the feeds of the model use.
Entities == <<
    [ref |-> "&nbsp;", char |-> NBSP],
    [ref |-> "&amp;",  char |-> "&"],
    [ref |-> "&lt;",   char |-> "<"],
    [ref |-> "&gt;",   char |-> ">"] >>

RECURSIVE unescape(_)
unescape(s) ==
    LET k == Find(s, "&")
        rest == Drop(s, k - 1)
        hit == {e \in 1..Len(Entities) : StartsWith(rest, Entities[e].ref)}
    IN IF k = 0 THEN s
       ELSE IF hit = {}
            THEN SubSeq(s, 1, k) \o unescape(Drop(s, k))
            ELSE LET e == CHOOSE e \in hit : TRUE
                 IN SubSeq(s, 1, k - 1) \o Entities[e].char
                        \o unescape(Drop(rest, Len(Entities[e].ref)))

-----------------------------------------------------------------------------
(* The helpers of HVACNewsFetcher.                                         *)

\* sum(1 for keyword in keywords if keyword in text)
Score(keywords, text) ==
    Cardinality({k \in 1..Len(keywords) : Contains(text, keywords[k])})

\* any(word in text for word in words)
AnyIn(words, text) == \E k \in 1..Len(words) : Contains(text, words[k])

Max(a, b) == IF a >= b THEN a ELSE b

bess_keywords ==
    <<"battery", "energy storage", "megapack", "grid scale", "bess", "lithium">>

hvac_keywords ==
    <<"hvac", "heating", "ventilation", "air conditioning", "heat pump", "refriger">>

finance_keywords ==
    <<"fintech", "banking", "cryptocurrency", "blockchain", "investment",
      "financial", "finance", "payment", "insurance", "venture capital", "funding">>

\* Faulty variant of _determine_industry: Finance also wins a tie for the maximum.
_determine_industry_ties(title, content) ==
    LET text == Lower(title \o " " \o content)
        bess_score == Score(bess_keywords, text)
        hvac_score == Score(hvac_keywords, text)
        finance_score == Score(finance_keywords, text)
    IN IF finance_score >= Max(bess_score, hvac_score) THEN "Finance"
       ELSE IF bess_score > hvac_score THEN "BESS"
       ELSE "HVAC"

_determine_industry(title, content) ==
    LET text == Lower(title \o " " \o content)
        bess_score == Score(bess_keywords, text)
        hvac_score == Score(hvac_keywords, text)
        finance_score == Score(finance_keywords, text)
    IN IF finance_score > Max(bess_score, hvac_score) THEN "Finance"
       ELSE IF bess_score > hvac_score THEN "BESS"
       ELSE "HVAC"

_determine_category(title, content) ==
    LET text == Lower(title \o " " \o content)
    IN IF AnyIn(<<"launch", "new product", "introduce", "unveil">>, text)
            THEN "Product Launch"
       ELSE IF AnyIn(<<"regulation", "compliance", "epa", "law", "standard">>, text)
            THEN "Regulatory Compliance"
       ELSE IF AnyIn(<<"market", "growth", "forecast", "trend", "analysis">>, text)
            THEN "Market Trends"
       ELSE IF AnyIn(<<"acquisition", "merger", "financial", "revenue", "profit">>, text)
            THEN "Competitor Financials"
       ELSE IF AnyIn(<<"technology", "innovation", "breakthrough", "research">>, text)
            THEN "Technology Innovation"
       ELSE "Industry Analysis"

SummaryLimit == 120

\* Faulty variant of PastLimit: a word that fills the buffer to the limit is refused.
PastLimitEarly(summary, word) == Len(summary \o word) >= SummaryLimit

\* len(summary + word) > 120
PastLimit(summary, word) == Len(summary \o word) > SummaryLimit

\* The loop `for word in words` of _generate_summary, from word k on.
RECURSIVE SummaryLoop(_, _, _)
SummaryLoop(words, k, summary) ==
    IF k > Len(words) THEN summary
    ELSE IF PastLimit(summary, words[k]) THEN summary
    ELSE SummaryLoop(words, k + 1, summary \o words[k] \o " ")

_generate_summary(content) ==
    IF Len(content) <= SummaryLimit THEN content
    ELSE IF Len(FirstSentence(content)) <= SummaryLimit
         THEN FirstSentence(content) \o "."
    ELSE Strip(SummaryLoop(Split(content), 1, "")) \o "..."

potential_tags ==
    <<"SmartHVAC", "AI", "EnergyEfficiency", "HeatPump", "BatteryStorage", "Tesla",
      "GridModernization", "RenewableEnergy", "EPA", "Regulations", "MarketGrowth",
      "Innovation", "Sustainability", "IoT", "Automation", "CommercialHVAC",
      "ResidentialHVAC", "Carrier", "Honeywell", "JohnsonControls", "Trane", "Rheem",
      "LGEnergy", "BYD", "EnergyStorage", "Fintech", "Blockchain", "Cryptocurrency",
      "DigitalPayments", "Banking", "Investment", "VentureCapital", "InsurTech",
      "RegTech", "WealthTech", "LendingTech", "CentralBank", "FinancialRegulation",
      "Trading", "RoboAdvisor">>

MaxTags == 5

\* tag.lower().replace("hvac", "hvac").split()
tag_words(tag) == Split(Replace(Lower(tag), "hvac", "hvac"))

\* all(word in text for word in tag_words)
TagMatches(tag, text) ==
    \A k \in 1..Len(tag_words(tag)) : Contains(text, tag_words(tag)[k])

_extract_tags(title, content) ==
    LET text == Lower(title \o " " \o content)
        found_tags == SelectSeq(potential_tags, LAMBDA tag : TagMatches(tag, text))
    IN SubSeq(found_tags, 1, IF Len(found_tags) < MaxTags THEN Len(found_tags) ELSE MaxTags)

\* email.utils.parsedate_to_datetime(..).isoformat() on the RFC 2822 dates the
\* model's feeds carry; on any other text the parse raises.
KnownDates == <<
    [text |-> "Mon, 02 Jan 2006 15:04:05 GMT", iso |-> "2006-01-02T15:04:05+00:00"],
    [text |-> "Tue, 03 Jan 2006 08:00:00 GMT", iso |-> "2006-01-03T08:00:00+00:00"] >>

DateParses(s) == \E k \in 1..Len(KnownDates) : KnownDates[k].text = s

ParsedIso(s) == KnownDates[CHOOSE k \in 1..Len(KnownDates) : KnownDates[k].text = s].iso

\* datetime.utcnow().isoformat() when the clock reads t.
Digits == <<"0", "1", "2", "3", "4", "5", "6", "7", "8", "9">>

ClockIso(t) == "2026-11-01T00:00:0" \o Digits[t + 1]

\* The value None.
None == [none |-> TRUE]

\* Faulty variant of MissingField: only the title is checked.
MissingTitleOnly(title, description) == title = ""

\* not title or not description
MissingField(title, description) == title = "" \/ description = ""

\* Faulty variant of parsed_date: the published date is ignored.
parsed_date_ignored(published_date, t) == ClockIso(t)

\* parsed_date.isoformat(): the parsed published date, or the time of the call
\* when the date is empty or does not parse.
parsed_date(published_date, t) ==
    IF published_date # "" /\ DateParses(published_date)
    THEN ParsedIso(published_date)
    ELSE ClockIso(t)

\* _format_article(article, industry_hint) called when the clock reads t; an
\* industry_hint of None is the empty string (both are falsy).
_format_article(article, industry_hint, t) ==
    LET title == Strip(article.title)
        description == Strip(article.description)
        publisher == article.publisher
        published_date == article.published_date
    IN IF MissingField(title, description) THEN None
       ELSE [title |-> title,
             content |-> description,
             summary |-> _generate_summary(description),
             source |-> publisher,
             category |-> _determine_category(title, description),
             industry |-> IF industry_hint # "" THEN industry_hint
                          ELSE _determine_industry(title, description),
             url |-> article.url,
             publishedAt |-> parsed_date(published_date, t),
             tags |-> _extract_tags(title, description)]

-----------------------------------------------------------------------------
(* fetch_articles: configuration and inputs.                               *)

\* The keys of self.search_terms in insertion order (dict iteration order).
IndustryOrder == <<"HVAC", "BESS", "Finance">>

search_terms ==
    [HVAC |-> <<"HVAC industry news", "heating ventilation air conditioning",
                "smart HVAC technology", "heat pump technology",
                "commercial HVAC equipment", "HVAC regulations EPA",
                "energy efficiency HVAC">>,
     BESS |-> <<"battery energy storage systems BESS",
                "Tesla Megapack energy storage", "grid scale battery storage">>,
     Finance |-> <<"financial technology fintech", "banking industry news",
                   "cryptocurrency blockchain", "investment banking",
                   "financial services regulation", "digital payments fintech",
                   "insurance technology insurtech", "venture capital funding",
                   "financial markets analysis", "central bank policy">>]

\* The terms of a group that the model queries: the first MaxTermsPerGroup.
Terms(industry) ==
    SubSeq(search_terms[industry], 1,
           IF Len(search_terms[industry]) < MaxTermsPerGroup
           THEN Len(search_terms[industry]) ELSE MaxTermsPerGroup)

\* data/news.json as a run may find it: absent; present but unreadable or not
\* JSON; or a JSON array, whose elements are objects with a title (a missing or
\* null title is the empty string) or values that are not objects.
Obj(title) == [isObject |-> TRUE, title |-> title]

NonObj == [isObject |-> FALSE, title |-> ""]

HistoryFile(exists, parses, entries) ==
    [exists |-> exists, parses |-> parses, entries |-> entries]

Histories ==
    { HistoryFile(FALSE, FALSE, <<>>),
      HistoryFile(TRUE, FALSE, <<>>),
      HistoryFile(TRUE, TRUE, <<Obj(" Alpha "), Obj("")>>),
      HistoryFile(TRUE, TRUE, <<Obj("Alpha"), NonObj>>),
      HistoryFile(TRUE, TRUE, <<NonObj, Obj("Beta")>>) }

\* The <item> elements a feed of the model may hold.
RawItem(title, description, source) ==
    [title |-> title, description |-> description, link |-> " http://n/1 ",
     source |-> source, pubDate |-> "Mon, 02 Jan 2006 15:04:05 GMT"]

AlphaItem == RawItem("Alpha", "<b>new</b> law", "Wire")
AlphaAgain == RawItem(" Alpha ", "fintech funding", "")
AlphaBare == RawItem("Alpha", "&nbsp;", "Wire")
BetaItem == RawItem("Beta", "fintech funding", "Wire")
BetaBare == RawItem(" Beta", "<p> </p>", "Wire")
GammaItem == RawItem("Gamma", "heat &amp; power", "")
Untitled == RawItem("  ", "untitled", "Wire")

RawItems == {AlphaItem, AlphaAgain, AlphaBare, BetaItem, BetaBare, GammaItem, Untitled}

\* The runs explored: what the source can return, what the history file holds
\* and the cap, in three families (repeated titles against every history;
\* distinct titles against every cap; items without a title or a description).
Environments ==
    { [pool |-> {AlphaItem, AlphaAgain, BetaItem},
       histories |-> Histories, caps |-> {MaxCap}],
      [pool |-> {AlphaItem, BetaItem, GammaItem},
       histories |-> {HistoryFile(FALSE, FALSE, <<>>)}, caps |-> 0..MaxCap],
      [pool |-> {AlphaItem, AlphaBare, BetaBare, Untitled},
       histories |-> {HistoryFile(FALSE, FALSE, <<>>)}, caps |-> {MaxCap}] }

RECURSIVE SeqsUpTo(_, _)
SeqsUpTo(S, n) ==
    IF n = 0 THEN {<<>>}
    ELSE SeqsUpTo(S, n - 1)
            \cup {Append(q, x) : q \in {r \in SeqsUpTo(S, n - 1) : Len(r) = n - 1}, x \in S}

\* The feeds of at most MaxFeedLen items over each environment's pool.
FeedsOver == [e \in {env.pool : env \in Environments} |-> SeqsUpTo(e, MaxFeedLen)]

-----------------------------------------------------------------------------
(* fetch_articles: the steps of the code.                                  *)

\* (article.get("title") or "").strip() of a history element; raises on a
\* value that is not an object.
RECURSIVE LoadTitles(_, _, _)
LoadTitles(entries, k, seen) ==
    IF k > Len(entries) THEN [seen |-> seen, raised |-> FALSE]
    ELSE IF ~entries[k].isObject THEN [seen |-> seen, raised |-> TRUE]
    ELSE LET title == Strip(entries[k].title)
         IN LoadTitles(entries, k + 1, IF title # "" THEN seen \cup {title} ELSE seen)

\* The history pre-seed: what the try block leaves in seen_titles.
LoadHistoryFile(file) ==
    IF ~file.exists THEN [seen |-> {}, raised |-> FALSE]
    ELSE IF ~file.parses THEN [seen |-> {}, raised |-> TRUE]
    ELSE LoadTitles(file.entries, 1, {})

\* title = (item.findtext("title") or "").strip()
ItemTitle(item) == Strip(item.title)

\* not title or title in seen_titles
SkipTitle(title, seen) == title = "" \/ title \in seen

\* Faulty variant of MarkSeen: the title is never recorded.
MarkSeenForgets(seen, title) == seen

\* seen_titles.add(title)
MarkSeen(seen, title) == seen \cup {title}

\* unescape(re.sub("<[^<]+?>", "", item.findtext("description") or "").strip())
NormalizeDescription(raw) == unescape(Strip(StripTags(raw)))

\* The dict handed to _format_article.
ArticleOf(item) ==
    [title |-> ItemTitle(item),
     description |-> NormalizeDescription(item.description),
     url |-> Strip(item.link),
     publisher |-> Strip(IF item.source = "" THEN "Unknown Source" ELSE item.source),
     published_date |-> item.pubDate]

\* Faulty variant of AppendArticle: the article is put in front.
PrependArticle(articles, formatted) == <<formatted>> \o articles

\* all_articles.append(formatted)
AppendArticle(articles, formatted) == Append(articles, formatted)

\* Faulty variant of CapReached: the comparison is strict.
CapReachedLate(count, cap) == count > cap

\* collected >= max_per_industry
CapReached(count, cap) == count >= cap

CurrentIndustry == IndustryOrder[industryIdx]

\* Lines 108 and 113-132 for each item of the model, computed once.
TitleOf == [item \in RawItems |-> ItemTitle(item)]

FormattedAs ==
    [item \in RawItems |->
        [industry \in {IndustryOrder[i] : i \in 1..Len(IndustryOrder)} |->
            [t \in 0..MaxClock |-> _format_article(ArticleOf(item), industry, t)]]]

LogEntry(item) == [industry |-> CurrentIndustry, item |-> item]

fnIdle == /\ now = 0 /\ fnArg = None /\ fnRet = <<>>

Init ==
    /\ pc = "load"
    /\ \E env \in Environments :
          /\ pool = env.pool
          /\ history \in env.histories
          /\ max_per_industry \in env.caps
    /\ seen_titles = {}
    /\ all_articles = <<>>
    /\ industryIdx = 0
    /\ termIdx = 0
    /\ collected = 0
    /\ root = <<>>
    /\ itemIdx = 0
    /\ seeded = {}
    /\ loadFailed = FALSE
    /\ log = <<>>
    /\ errors = 0
    /\ fnIdle

\* Lines 79-92: the history pre-seed.
LoadHistory ==
    /\ pc = "load"
    /\ LET r == LoadHistoryFile(history)
       IN /\ seen_titles' = r.seen
          /\ seeded' = r.seen
          /\ loadFailed' = r.raised
    /\ industryIdx' = 1
    /\ pc' = "industry"
    /\ UNCHANGED <<history, pool, max_per_industry, all_articles, termIdx, collected, root,
                   itemIdx, log, errors, now, fnArg, fnRet>>

\* Line 94-95: the next group of search_terms; collected = 0.
EnterIndustry ==
    /\ pc = "industry"
    /\ industryIdx <= Len(IndustryOrder)
    /\ collected' = 0
    /\ termIdx' = 1
    /\ pc' = "term"
    /\ UNCHANGED <<history, pool, max_per_industry, seen_titles, all_articles, industryIdx,
                   root, itemIdx, seeded, loadFailed, log, errors, now, fnArg, fnRet>>

\* Line 145: return all_articles.
Return ==
    /\ pc = "industry"
    /\ industryIdx > Len(IndustryOrder)
    /\ pc' = "done"
    /\ UNCHANGED <<orchVars, now, fnArg, fnRet>>

\* Line 96: the group's terms are exhausted.
TermsExhausted ==
    /\ pc = "term"
    /\ termIdx > Len(Terms(CurrentIndustry))
    /\ industryIdx' = industryIdx + 1
    /\ pc' = "industry"
    /\ UNCHANGED <<history, pool, max_per_industry, seen_titles, all_articles, termIdx,
                   collected, root, itemIdx, seeded, loadFailed, log, errors,
                   now, fnArg, fnRet>>

\* Lines 97-98: the cap is reached, break out of the group's term loop.
CapBreak ==
    /\ pc = "term"
    /\ termIdx <= Len(Terms(CurrentIndustry))
    /\ CapReached(collected, max_per_industry)
    /\ industryIdx' = industryIdx + 1
    /\ pc' = "industry"
    /\ UNCHANGED <<history, pool, max_per_industry, seen_titles, all_articles, termIdx,
                   collected, root, itemIdx, seeded, loadFailed, log, errors,
                   now, fnArg, fnRet>>

\* Lines 99-105 and 138-143: urlopen or ET.fromstring raises; the term is
\* reported and the loop continues with the next term.
FetchFails ==
    /\ pc = "term"
    /\ termIdx <= Len(Terms(CurrentIndustry))
    /\ ~CapReached(collected, max_per_industry)
    /\ errors < MaxFailures
    /\ errors' = errors + 1
    /\ termIdx' = termIdx + 1
    /\ UNCHANGED <<pc, history, pool, max_per_industry, seen_titles, all_articles,
                   industryIdx, collected, root, itemIdx, seeded, loadFailed, log,
                   now, fnArg, fnRet>>

\* Lines 99-107: the feed of the term is fetched and parsed.
FetchFeed ==
    /\ pc = "term"
    /\ termIdx <= Len(Terms(CurrentIndustry))
    /\ ~CapReached(collected, max_per_industry)
    /\ \E feed \in FeedsOver[pool] :
          /\ Len(log) + Len(feed) <= MaxTotalItems
          /\ root' = feed
    /\ itemIdx' = 1
    /\ pc' = "item"
    /\ UNCHANGED <<history, pool, max_per_industry, seen_titles, all_articles, industryIdx,
                   termIdx, collected, seeded, loadFailed, log, errors,
                   now, fnArg, fnRet>>

\* Line 107: the feed's items are exhausted; on to the next term.
FeedExhausted ==
    /\ pc = "item"
    /\ itemIdx > Len(root)
    /\ termIdx' = termIdx + 1
    /\ pc' = "term"
    /\ UNCHANGED <<history, pool, max_per_industry, seen_titles, all_articles, industryIdx,
                   collected, root, itemIdx, seeded, loadFailed, log, errors,
                   now, fnArg, fnRet>>

\* Lines 108-110: an item without a title, or with a title already seen.
SkipItem ==
    /\ pc = "item"
    /\ itemIdx <= Len(root)
    /\ SkipTitle(TitleOf[root[itemIdx]], seen_titles)
    /\ log' = Append(log, LogEntry(root[itemIdx]))
    /\ itemIdx' = itemIdx + 1
    /\ UNCHANGED <<pc, history, pool, max_per_industry, seen_titles, all_articles,
                   industryIdx, termIdx, collected, root, seeded, loadFailed,
                   errors, now, fnArg, fnRet>>

\* Lines 108-137: an item with a new title is marked seen and formatted; the
\* article, if any, is appended and counted; the item loop breaks at the cap.
ProcessItem ==
    /\ pc = "item"
    /\ itemIdx <= Len(root)
    /\ ~SkipTitle(TitleOf[root[itemIdx]], seen_titles)
    /\ LET item == root[itemIdx]
           formatted == FormattedAs[item][CurrentIndustry][now]
           count == IF formatted # None THEN collected + 1 ELSE collected
       IN /\ seen_titles' = MarkSeen(seen_titles, TitleOf[item])
          /\ all_articles' = IF formatted # None
                             THEN AppendArticle(all_articles, formatted)
                             ELSE all_articles
          /\ collected' = count
          /\ log' = Append(log, LogEntry(item))
          /\ IF CapReached(count, max_per_industry)
             THEN /\ termIdx' = termIdx + 1
                  /\ pc' = "term"
                  /\ itemIdx' = itemIdx
             ELSE /\ itemIdx' = itemIdx + 1
                  /\ UNCHANGED <<pc, termIdx>>
    /\ UNCHANGED <<history, pool, max_per_industry, industryIdx, root, seeded, loadFailed,
                   errors, now, fnArg, fnRet>>

Next ==
    \/ LoadHistory
    \/ EnterIndustry
    \/ Return
    \/ TermsExhausted
    \/ CapBreak
    \/ FetchFails
    \/ FetchFeed
    \/ FeedExhausted
    \/ SkipItem
    \/ ProcessItem

Spec == Init /\ [][Next]_vars

-----------------------------------------------------------------------------
(* The helpers called on their own: the inputs tried and the calls.        *)

\* The orchestrator's variables while a helper is exercised on its own.
OrchIdle ==
    /\ history = HistoryFile(FALSE, FALSE, <<>>)
    /\ pool = {}
    /\ max_per_industry = 0
    /\ seen_titles = {}
    /\ all_articles = <<>>
    /\ industryIdx = 0
    /\ termIdx = 0
    /\ collected = 0
    /\ root = <<>>
    /\ itemIdx = 0
    /\ seeded = {}
    /\ loadFailed = FALSE
    /\ log = <<>>
    /\ errors = 0

\* The texts made of at most n phrases of V, joined by single spaces.
RECURSIVE TextsUpTo(_, _)
TextsUpTo(V, n) ==
    IF n = 0 THEN {""}
    ELSE TextsUpTo(V, n - 1)
            \cup {IF t = "" THEN w ELSE t \o " " \o w : t \in TextsUpTo(V, n - 1), w \in V}

\* n copies of the character c; the recursion halves n.
RECURSIVE Rep(_, _)
Rep(c, n) ==
    IF n = 0 THEN ""
    ELSE IF n = 1 THEN c
    ELSE Rep(c, n \div 2) \o Rep(c, n - (n \div 2))

\* ---- _determine_industry ----
IndustryPhrases == {"battery", "HVAC", "Fintech", "banking", "energy storage", "news"}

IndustryInputs ==
    [title : {"", "Heating"}, content : TextsUpTo(IndustryPhrases, MaxWords)]

InitIndustry ==
    /\ pc = "industry"
    /\ OrchIdle
    /\ now = 0
    /\ fnArg \in IndustryInputs
    /\ fnRet = <<>>

CallDetermineIndustry ==
    /\ pc = "industry"
    /\ fnRet = <<>>
    /\ fnRet' = <<_determine_industry(fnArg.title, fnArg.content)>>
    /\ UNCHANGED <<pc, orchVars, now, fnArg>>

SpecIndustry == InitIndustry /\ [][CallDetermineIndustry]_vars

\* ---- _extract_tags ----
TagPhrases ==
    {"smart hvac technology", "SmartHVAC", "Tesla EPA", "air IoT",
     "banking blockchain", "news"}

TagInputs == [title : {"", "Carrier Trane"}, content : TextsUpTo(TagPhrases, MaxWords)]

InitTags ==
    /\ pc = "tags"
    /\ OrchIdle
    /\ now = 0
    /\ fnArg \in TagInputs
    /\ fnRet = <<>>

CallExtractTags ==
    /\ pc = "tags"
    /\ fnRet = <<>>
    /\ fnRet' = <<_extract_tags(fnArg.title, fnArg.content)>>
    /\ UNCHANGED <<pc, orchVars, now, fnArg>>

SpecTags == InitTags /\ [][CallExtractTags]_vars

\* ---- _generate_summary ----
\* A chunk is a word of `len` letters followed by a separator.
Chunk(len, sep) == Rep("a", len) \o sep

Chunks ==
    { Chunk(0, ". "), Chunk(1, " "), Chunk(59, " "), Chunk(60, ""), Chunk(60, " "),
      Chunk(60, ". "), Chunk(61, "\t "), Chunk(121, " "), Chunk(130, ". ") }

RECURSIVE ContentsUpTo(_)
ContentsUpTo(n) ==
    IF n = 0 THEN {""}
    ELSE ContentsUpTo(n - 1) \cup {t \o c : t \in ContentsUpTo(n - 1), c \in Chunks}

SummaryInputs == ContentsUpTo(MaxChunks)

InitSummary ==
    /\ pc = "summary"
    /\ OrchIdle
    /\ now = 0
    /\ fnArg \in SummaryInputs
    /\ fnRet = <<>>

CallGenerateSummary ==
    /\ pc = "summary"
    /\ fnRet = <<>>
    /\ fnRet' = <<_generate_summary(fnArg)>>
    /\ UNCHANGED <<pc, orchVars, now, fnArg>>

SpecSummary == InitSummary /\ [][CallGenerateSummary]_vars

\* ---- _format_article ----
FormatInputs ==
    [article : [title : {"Alpha", " Beta ", ""},
                description : {"heat pump launch", "  fintech funding ", ""},
                url : {"http://n/1"},
                publisher : {"Wire"},
                published_date : {"", " ", "yesterday", KnownDates[1].text,
                                  KnownDates[2].text}],
     hint : {"", "BESS"}]

InitFormat ==
    /\ pc = "format"
    /\ OrchIdle
    /\ now = 0
    /\ fnArg \in FormatInputs
    /\ fnRet = <<>>

\* Time passes between two calls.
Tick ==
    /\ pc = "format"
    /\ now < MaxClock
    /\ now' = now + 1
    /\ UNCHANGED <<pc, orchVars, fnArg, fnRet>>

\* One more call of _format_article on the same item, at the current time.
CallFormatArticle ==
    /\ pc = "format"
    /\ Len(fnRet) < 2
    /\ fnRet' = Append(fnRet, [at |-> now,
                            value |-> _format_article(fnArg.article, fnArg.hint, now)])
    /\ UNCHANGED <<pc, orchVars, now, fnArg>>

NextFormat == Tick \/ CallFormatArticle

SpecFormat == InitFormat /\ [][NextFormat]_vars

-----------------------------------------------------------------------------
(* Properties of fetch_articles (specification Spec).                      *)

Titles(articles) == {articles[i].title : i \in 1..Len(articles)}

\* The number of articles of the result that carry the label `industry`.
CountOf(industry) ==
    Cardinality({i \in 1..Len(all_articles) : all_articles[i].industry = industry})

\* The items of the model whose title is blank, and those whose description is
\* empty once markup is stripped and the text trimmed or unescaped and trimmed.
BlankTitled == {item \in RawItems : Strip(item.title) = ""}

BareAfterStripping == {item \in RawItems : Strip(StripTags(item.description)) = ""}

BareAfterUnescape ==
    {item \in RawItems : Strip(unescape(Strip(StripTags(item.description)))) = ""}

\* The examined items that the run must turn into articles: the k-th examined
\* item is accepted when it has a title that neither the history nor an earlier
\* examined item carries, and a description.
AcceptedAt(k) ==
    /\ log[k].item \notin BlankTitled
    /\ TitleOf[log[k].item] \notin seeded
    /\ \A j \in 1..(k - 1) : TitleOf[log[j].item] # TitleOf[log[k].item]
    /\ log[k].item \notin BareAfterUnescape

AcceptedPositions == {k \in 1..Len(log) : AcceptedAt(k)}

NthAccepted(n) ==
    CHOOSE k \in AcceptedPositions : Cardinality({j \in AcceptedPositions : j < k}) = n - 1

ExpectedArticles ==
    [n \in 1..Cardinality(AcceptedPositions) |->
        FormattedAs[log[NthAccepted(n)].item][log[NthAccepted(n)].industry][0]]

\* C1: no two articles of the result carry the same trimmed title, and no
\* article of the result carries a title that the history file put into
\* seen_titles; one seen_titles set serves every term of every group.
TitleUniqueness ==
    /\ \A i, j \in 1..Len(all_articles) :
          i # j => all_articles[i].title # all_articles[j].title
    /\ \A i \in 1..Len(all_articles) :
          /\ all_articles[i].title \notin seeded
          /\ all_articles[i].title \in seen_titles
    /\ seeded \subseteq seen_titles \/ pc = "load"

\* C1 witness: a run over a seeded history that met a seeded title, and met a
\* new title twice in two different groups, and emitted that title once.
TitleUniquenessWitness ==
    /\ pc = "done"
    /\ seeded # {}
    /\ \E k \in 1..Len(log) : TitleOf[log[k].item] \in seeded
    /\ \E i, j \in 1..Len(log) :
          /\ i < j
          /\ TitleOf[log[i].item] = TitleOf[log[j].item]
          /\ log[i].industry # log[j].industry
          /\ TitleOf[log[i].item] \in Titles(all_articles)

\* C2 (as claimed): when the run has returned and two of the items it examined
\* carry the same non-empty trimmed title, which the history did not seed,
\* exactly one article of the result carries that title, whatever the two
\* descriptions are.  It is stated for the pairs in which the later item has a
\* description, so that a violation never rests on two items without content.
DedupEmitsExactlyOne ==
    pc = "done" =>
    \A i, j \in 1..Len(log) :
        ( /\ i < j
          /\ TitleOf[log[i].item] = TitleOf[log[j].item]
          /\ TitleOf[log[i].item] # ""
          /\ TitleOf[log[i].item] \notin seeded
          /\ log[j].item \notin BareAfterUnescape )
        => Cardinality({k \in 1..Len(all_articles) :
                           all_articles[k].title = TitleOf[log[i].item]}) = 1

\* C3: every group contributes at most max_per_industry articles, each labelled
\* with the group of the term that produced it; once the group's count reaches
\* the cap nothing more is fetched, examined or marked seen for that group; the
\* count restarts at 0 for the next group, whose first term can be queried.
CapState ==
    /\ \A g \in 1..Len(IndustryOrder) : CountOf(IndustryOrder[g]) <= max_per_industry
    /\ pc \in {"term", "item"} => collected = CountOf(CurrentIndustry)
    /\ pc = "item" => collected < max_per_industry
    /\ (pc = "term" /\ termIdx = 1) => collected = 0
    /\ (pc = "term" /\ termIdx = 1 /\ max_per_industry > 0) => ENABLED FetchFeed

CapStep ==
    /\ Len(all_articles') > Len(all_articles) =>
          /\ pc = "item"
          /\ all_articles' = Append(all_articles, all_articles'[Len(all_articles')])
          /\ all_articles'[Len(all_articles')].industry = IndustryOrder[industryIdx]
          /\ collected' = collected + 1
    /\ (pc \in {"term", "item"} /\ collected >= max_per_industry) =>
          /\ UNCHANGED <<seen_titles, all_articles, log, root, itemIdx, errors>>
          /\ pc' = "industry"
          /\ industryIdx' = industryIdx + 1
    /\ (pc = "industry" /\ pc' = "term") => (collected' = 0 /\ termIdx' = 1)

PerIndustryCap == [](CapState) /\ [][CapStep]_vars

\* C3 witness: a later group has reached its cap with an item of the current
\* feed still unexamined and a term of the group still unqueried, and the
\* result holds an article whose text alone would be classified otherwise.
PerIndustryCapWitness ==
    /\ pc = "term"
    /\ industryIdx >= 2
    /\ max_per_industry >= 1
    /\ collected = max_per_industry
    /\ itemIdx < Len(root)
    /\ termIdx <= Len(Terms(CurrentIndustry))
    /\ CountOf(IndustryOrder[1]) = max_per_industry
    /\ \E i \in 1..Len(all_articles) :
          all_articles[i].industry
              # _determine_industry(all_articles[i].title, all_articles[i].content)

\* C4: a failing fetch changes nothing but the error count and moves on to the
\* next term; the run can always take a step until it returns; and the result
\* is exactly the accepted items in the order in which they were examined
\* (group order, then term order, then feed order).
FailStep ==
    errors' # errors =>
        /\ errors' = errors + 1
        /\ UNCHANGED <<seen_titles, all_articles, log, collected, industryIdx>>
        /\ pc = "term" /\ pc' = "term"
        /\ termIdx' = termIdx + 1

FetchOrder ==
    /\ [](all_articles = ExpectedArticles)
    /\ [](pc # "done" => ENABLED Next)
    /\ [][FailStep]_vars

\* C4 witness: the run of the example: a term fails, a term returns two new
\* items, a later term returns a duplicate of the first and one new item; the
\* result is the three articles, in that order.
FetchOrderWitness ==
    /\ pc = "done"
    /\ errors = 1
    /\ Len(log) = 4
    /\ log[1].industry = log[2].industry
    /\ log[3].industry = log[4].industry
    /\ log[2].industry # log[3].industry
    /\ TitleOf[log[1].item] # TitleOf[log[2].item]
    /\ TitleOf[log[3].item] = TitleOf[log[1].item]
    /\ TitleOf[log[4].item] \notin {TitleOf[log[1].item], TitleOf[log[2].item]}
    /\ Len(all_articles) = 3
    /\ \A n \in 1..3 :
          all_articles[n].title = TitleOf[log[IF n = 3 THEN 4 ELSE n].item]

\* C5: every article of the accumulator has a non-empty title and a non-empty
\* content, at every moment of the run; an item with a blank title, or with a
\* description that is empty after markup stripping and trimming, adds nothing,
\* is not counted, and the run goes on with the next item.
NoBlankField ==
    \A i \in 1..Len(all_articles) :
        all_articles[i].title # "" /\ all_articles[i].content # ""

DropStep ==
    ( /\ pc = "item"
      /\ itemIdx <= Len(root)
      /\ root[itemIdx] \in BlankTitled \cup BareAfterStripping \cup BareAfterUnescape )
    => /\ UNCHANGED <<all_articles, collected, root, pc, termIdx>>
       /\ itemIdx' = itemIdx + 1
       /\ log' = Append(log, LogEntry(root[itemIdx]))

NoEmptyTitleOrContent == [](NoBlankField) /\ [][DropStep]_vars

\* C5 witness: a run that examined an item without a title, then an item whose
\* description is only markup, and emitted an article for the item after them.
NoEmptyTitleOrContentWitness ==
    /\ pc = "done"
    /\ Len(log) >= 3
    /\ log[1].item \in BlankTitled
    /\ log[2].item \in BareAfterStripping \ BlankTitled
    /\ AcceptedAt(3)
    /\ Len(all_articles) = 1
    /\ all_articles[1].title = TitleOf[log[3].item]

\* C6 (as claimed): when the history load fails, at whatever point, the term
\* loop starts with an empty seen_titles.
FailedLoadSeedsNothing == (pc # "load" /\ loadFailed) => seeded = {}

-----------------------------------------------------------------------------
(* Properties of the helpers.                                              *)

Range(seq) == {seq[k] : k \in 1..Len(seq)}

\* ---- C7: _format_article (specification SpecFormat) ----

\* The fields of an Article other than publishedAt.
SameButTime(a, b) ==
    /\ a.title = b.title /\ a.content = b.content /\ a.summary = b.summary
    /\ a.source = b.source /\ a.category = b.category /\ a.industry = b.industry
    /\ a.url = b.url /\ a.tags = b.tags

\* C7 (as claimed): two calls of _format_article on the same item with the same
\* hint, at any two moments, return identical records, publishedAt included.
FormatIdempotent == Len(fnRet) = 2 => fnRet[1].value = fnRet[2].value

\* C7 (amended): two calls on the same item with the same hint both return None
\* or return records identical in every field but publishedAt; publishedAt is
\* the item's published date when that date parses, hence identical too, and
\* otherwise the time of each call, hence identical for calls at the same time.
FormatIdempotentUpToClock ==
    Len(fnRet) = 2 =>
        LET a == fnRet[1].value
            b == fnRet[2].value
            date == fnArg.article.published_date
        IN \/ a = None /\ b = None
           \/ /\ a # None /\ b # None
              /\ SameButTime(a, b)
              /\ DateParses(date) => a.publishedAt = b.publishedAt
              /\ DateParses(date) => a.publishedAt = ParsedIso(date)
              /\ ~DateParses(date) =>
                    /\ a.publishedAt = ClockIso(fnRet[1].at)
                    /\ b.publishedAt = ClockIso(fnRet[2].at)

\* C7 witness: two calls at different times on an item whose date is malformed
\* returned two records that differ, and only in publishedAt.
FormatIdempotentWitness ==
    /\ Len(fnRet) = 2
    /\ fnArg.article.published_date = "yesterday"
    /\ fnRet[1].at # fnRet[2].at
    /\ fnRet[1].value # None
    /\ fnRet[1].value # fnRet[2].value
    /\ SameButTime(fnRet[1].value, fnRet[2].value)

\* ---- C8: _determine_industry (specification SpecIndustry) ----

\* The decision rule of the specification on three scores.
Decide(bess, hvac, finance) ==
    CASE finance > bess /\ finance > hvac -> "Finance"
      [] ~(finance > bess /\ finance > hvac) /\ bess > hvac -> "BESS"
      [] OTHER -> "HVAC"

\* The number of occurrences in text of the keywords of a list, every
\* occurrence counted.
RECURSIVE OccurrenceCount(_, _)
OccurrenceCount(keywords, text) ==
    IF keywords = <<>> THEN 0
    ELSE Cardinality(Occurrences(text, Head(keywords)))
            + OccurrenceCount(Tail(keywords), text)

\* The number of keywords of a list that occur in text, each counted once.
PresentCount(keywords, text) ==
    Cardinality({kw \in Range(keywords) : Occurrences(text, kw) # {}})

IndustryText == Lower(fnArg.title \o " " \o fnArg.content)

\* C8 (as claimed): the scores count every occurrence of every keyword, and the
\* result follows the decision rule on those scores.
IndustryCountsOccurrences ==
    fnRet # <<>> =>
        fnRet[1] = Decide(OccurrenceCount(bess_keywords, IndustryText),
                          OccurrenceCount(hvac_keywords, IndustryText),
                          OccurrenceCount(finance_keywords, IndustryText))

\* C8 (amended): each score is the number of keywords of its list that occur in
\* the lower-cased title + " " + content (a keyword that occurs several times
\* counts once), and the result follows the decision rule on those scores.
IndustryCountsKeywords ==
    fnRet # <<>> =>
        fnRet[1] = Decide(PresentCount(bess_keywords, IndustryText),
                          PresentCount(hvac_keywords, IndustryText),
                          PresentCount(finance_keywords, IndustryText))

\* C8 witness: a text with "battery" twice and "hvac" once was classified HVAC.
IndustryWitness ==
    /\ fnRet = <<"HVAC">>
    /\ fnArg.title = ""
    /\ fnArg.content = "battery battery HVAC"

\* ---- C9: _extract_tags (specification SpecTags) ----

TagText == Lower(fnArg.title \o " " \o fnArg.content)

\* The position of a tag in the vocabulary.
TagRank(tag) == CHOOSE k \in 1..Len(potential_tags) : potential_tags[k] = tag

\* C9 (as claimed): at most 5 tags, all of the vocabulary, none repeated, in
\* vocabulary order; and "SmartHVAC" is among them whenever the text holds
\* "smart" and "hvac" as separate words.
TagsAsClaimed ==
    fnRet # <<>> =>
        LET tags == fnRet[1]
        IN /\ Len(tags) <= MaxTags
           /\ \A i \in 1..Len(tags) : tags[i] \in Range(potential_tags)
           /\ \A i, j \in 1..Len(tags) : i < j => TagRank(tags[i]) < TagRank(tags[j])
           /\ ({"smart", "hvac"} \subseteq Range(Split(TagText))) => "SmartHVAC" \in Range(tags)

\* ---- C10: _generate_summary (specification SpecSummary) ----

\* The words of a sequence joined by single spaces.
RECURSIVE JoinWords(_)
JoinWords(words) ==
    IF words = <<>> THEN ""
    ELSE IF Len(words) = 1 THEN words[1]
    ELSE words[1] \o " " \o JoinWords(Tail(words))

\* The length of the buffer once the first k words are in it, each followed by
\* a space.
RECURSIVE BufferLen(_, _)
BufferLen(words, k) ==
    IF k = 0 THEN 0 ELSE BufferLen(words, k - 1) + Len(words[k]) + 1

\* The longest prefix of the words none of which pushes the buffer past the
\* limit when it is added.
FittingWords(words) ==
    LET fits(k) == \A j \in 1..k : BufferLen(words, j - 1) + Len(words[j]) <= SummaryLimit
        n == CHOOSE k \in 0..Len(words) :
                fits(k) /\ \A m \in 0..Len(words) : fits(m) => m <= k
    IN SubSeq(words, 1, n)

\* C10: once the call has returned, content of at most 120 characters is
\* returned as it is; longer content whose first ". "-delimited candidate has
\* at most 120 characters gives that candidate and "."; any other content
\* gives the longest fitting prefix of its words, joined by spaces, and "...";
\* the result has at most 124 characters and is not empty unless the content
\* is.
SummaryAsSpecified ==
    fnRet # <<>> =>
        /\ fnRet[1] =
              IF Len(fnArg) <= SummaryLimit THEN fnArg
              ELSE IF Len(FirstSentence(fnArg)) <= SummaryLimit
                   THEN FirstSentence(fnArg) \o "."
              ELSE JoinWords(FittingWords(Split(fnArg))) \o "..."
        /\ Len(fnRet[1]) <= SummaryLimit + 4
        /\ fnArg # "" => fnRet[1] # ""

\* C10 witness: content with no early ". " was cut after two words that fill
\* the buffer to exactly 120 characters.
SummaryWitness ==
    /\ fnRet # <<>>
    /\ Len(fnArg) > SummaryLimit
    /\ Len(FirstSentence(fnArg)) > SummaryLimit
    /\ Len(Split(fnArg)) >= 3
    /\ fnRet[1] = Rep("a", 59) \o " " \o Rep("a", 60) \o "..."

====
